---- MODULE Spec2Model ----
(***************************************************************************)
(* NHLScores: the logo cache resolver (ensure_logo_cached), the schedule   *)
(* fetcher (fetch_games), the auto-refresh timer of the window             *)
(* (NHLscores.py) and the batch converter (convert_logos.py).              *)
(*                                                                         *)
(* A file of the cache directory is a pair <<abbrev, ext>>; the directory  *)
(* maps each file to the tag of what wrote it ("absent" when there is no   *)
(* such file).  A call is one atomic step: the program is single-threaded  *)
(* and nothing else runs while a call is in progress.  The state right     *)
(* after a call holds the call's inputs and results; the caller then drops *)
(* them (CallReturns, FetchReturns, BatchExits).                           *)
(***************************************************************************)
EXTENDS Integers, Sequences, FiniteSets, TLC

VARIABLES
    fs,                 \* the cache directory LOGO_DIR: file -> content tag
    cairosvg,           \* NHLscores.py: `cairosvg is not None`
    svglib_available,   \* NHLscores.py: svglib and reportlab importable
    selenium,           \* convert_logos.py: selenium importable
    PIL,                \* Pillow importable
    call,               \* <<>> or <<r>>: the ensure_logo_cached call that just ran
    batch,              \* <<>> or <<r>>: the convert_logos.py run that just ended
    fetch,              \* <<>> or <<r>>: the fetch_games call that just ran
    tk,                 \* NHLscores.py: tkinter importable
    pc,                 \* NHLscores.py as a program: "off", "start", "mainloop", "exited", "crashed"
    alerts,             \* the MessageBoxW alerts shown so far
    date_var,           \* the date entry
    container,          \* the widgets of the games container, top to bottom
    title,              \* the window title
    auto_refresh_var,   \* the "Live Games" checkbox
    auto_refresh_job,   \* <<>> (None) or <<id>>: the global auto_refresh_job
    after_queue,        \* the callbacks root.after has pending
    after_seq,          \* the number of after ids handed out
    last                \* the handler that ran last and whether it fetched; after
                        \* the start, the globals lines and games_data

\* The libraries found at import time.
libs == <<cairosvg, svglib_available, selenium, PIL, tk>>

\* The window and its event loop.
gui == <<pc, alerts, date_var, container, title, auto_refresh_var, auto_refresh_job,
         after_queue, after_seq, last>>

vars == <<fs, libs, call, batch, fetch, gui>>

\* No call is in progress.
Idle == call = <<>> /\ batch = <<>> /\ fetch = <<>>

\* NHLscores.py is not running as a program.
WindowOff ==
    /\ tk = TRUE
    /\ pc = "off"
    /\ alerts = <<>>
    /\ date_var = ""
    /\ container = <<>>
    /\ title = ""
    /\ auto_refresh_var = FALSE
    /\ auto_refresh_job = <<>>
    /\ after_queue = {}
    /\ after_seq = 0
    /\ last = [handler |-> "", fetched |-> "no", cancelled |-> FALSE,
               lines |-> <<>>, games_data |-> <<>>]

-----------------------------------------------------------------------------
(* Values *)

\* Python's None where a string is expected.
None == "<None>"

\* No path: ensure_logo_cached returned None.
NoPath == <<>>

Abbrevs == {"AAA", "BBB"}

\* Logo URLs the schedule response may carry, named by their path.
DarkUrls == {"dark.svg"}

LightUrls == {"light", "light.svg", "light.png", "light.jpg", "light.JPG", "light.gif"}

\* os.path.splitext(urlparse(logo_url).path)[1]
splitext(url) ==
    CASE url \in {"dark.svg", "light.svg"} -> ".svg"
      [] url = "light.png" -> ".png"
      [] url = "light.jpg" -> ".jpg"
      [] url = "light.JPG" -> ".JPG"
      [] url = "light.gif" -> ".gif"
      [] OTHER -> ""

\* str.lower() on the extensions that occur.
lower(ext) == IF ext = ".JPG" THEN ".jpg" ELSE ext

\* The extensions the resolver and the window accept as raster.
RasterExts == {".png", ".jpg", ".jpeg"}

FileExts == {".png", ".jpg", ".svg", ".gif"}

\* The files the calls modelled can create.
Files == ({"AAA"} \X FileExts) \cup ({"BBB"} \X {".png", ".svg"})

Absent == "absent"

\* The file a path names: the cache directory's names do not differ by case.
FileOf(path) == <<path[1], lower(path[2])>>

\* os.path.exists(path)
exists(f, path) == FileOf(path) \in DOMAIN f /\ f[FileOf(path)] # Absent

\* A write of `content` to `path`.
write(f, path, content) == [f EXCEPT ![FileOf(path)] = content]

\* Python truthiness of an optional string.
Truthy(s) == s # None /\ s # ""

\* A team object of the schedule response; isdict = FALSE is a JSON value
\* that is not an object.
TeamObj(abbrev, darkLogo, logo) ==
    [isdict |-> TRUE, abbrev |-> abbrev, darkLogo |-> darkLogo, logo |-> logo]

NotADict == [isdict |-> FALSE, abbrev |-> None, darkLogo |-> None, logo |-> None]

\* The team objects the resolver is called on: "AAA" with every logo URL,
\* "BBB" with an SVG logo, an object without abbreviation and a non-object.
TeamObjs ==
    {TeamObj("AAA", None, l) : l \in LightUrls \cup {None}}
    \cup {TeamObj("AAA", d, l) : d \in {"", "dark.svg"}, l \in {None, "light.png"}}
    \cup {TeamObj("BBB", None, "light.svg"), TeamObj("BBB", "dark.svg", "light.png")}
    \cup {TeamObj(None, None, "light.png"), NotADict}

\* What the network, the converters and the disk do during one call.  A
\* write that fails leaves the directory as it was.
Envs ==
    [download : {"ok", "fail"}, cairo : {"ok", "fail"},
     svglib : {"ok", "fail"}, write : {"ok", "fail"}]

-----------------------------------------------------------------------------
(* ensure_logo_cached *)

\* The result of one call, with what it did on the way.
Result(ret, f, requested, tried, wrote, raised) ==
    [ret |-> ret, fs |-> f, requested |-> requested, tried |-> tried,
     wrote |-> wrote, raised |-> raised]

\* team_obj.get('abbrev') if isinstance(team_obj, dict) else None
AbbrevOf(team_obj) == IF team_obj.isdict THEN team_obj.abbrev ELSE None

\* team_obj.get('darkLogo') or team_obj.get('logo')
LogoUrlOf(team_obj) ==
    IF ~team_obj.isdict THEN None
    ELSE IF Truthy(team_obj.darkLogo) THEN team_obj.darkLogo ELSE team_obj.logo

\* The extension of the URL's path, ".svg" when it has none.
ExtOf(logo_url) == IF splitext(logo_url) = "" THEN ".svg" ELSE splitext(logo_url)

\* The cached raster the resolver looks for: the PNG.
CachedRaster(f, abbrev) ==
    IF exists(f, <<abbrev, ".png">>) THEN <<abbrev, ".png">> ELSE NoPath

ConvertExistingSvglibFirst(abbrev, f, env) ==
    IF svglib_available /\ env.svglib = "ok"
    THEN Result(<<abbrev, ".png">>, write(f, <<abbrev, ".png">>, "svglib"),
                FALSE, <<"svglib">>, {<<abbrev, ".png">>}, FALSE)
    ELSE IF cairosvg /\ env.cairo = "ok"
    THEN Result(<<abbrev, ".png">>, write(f, <<abbrev, ".png">>, "cairosvg"),
                FALSE, (IF svglib_available THEN <<"svglib">> ELSE <<>>) \o <<"cairosvg">>,
                {<<abbrev, ".png">>}, FALSE)
    ELSE Result(NoPath, f, FALSE,
                (IF svglib_available THEN <<"svglib">> ELSE <<>>)
                    \o (IF cairosvg THEN <<"cairosvg">> ELSE <<>>),
                {}, FALSE)

\* A cached SVG exists: convert it with cairosvg, then with svglib; whatever
\* the outcome, the call ends here.
ConvertExisting(abbrev, f, env) ==
    IF cairosvg /\ env.cairo = "ok"
    THEN Result(<<abbrev, ".png">>, write(f, <<abbrev, ".png">>, "cairosvg"),
                FALSE, <<"cairosvg">>, {<<abbrev, ".png">>}, FALSE)
    ELSE IF svglib_available /\ env.svglib = "ok"
    THEN Result(<<abbrev, ".png">>, write(f, <<abbrev, ".png">>, "svglib"),
                FALSE, (IF cairosvg THEN <<"cairosvg">> ELSE <<>>) \o <<"svglib">>,
                {<<abbrev, ".png">>}, FALSE)
    ELSE Result(NoPath, f, FALSE,
                (IF cairosvg THEN <<"cairosvg">> ELSE <<>>)
                    \o (IF svglib_available THEN <<"svglib">> ELSE <<>>),
                {}, FALSE)

DownloadFailedRaises(f) == Result(NoPath, f, TRUE, <<>>, {}, TRUE)

\* requests.get or raise_for_status raised: caught, no logo.
DownloadFailed(f) == Result(NoPath, f, TRUE, <<>>, {}, FALSE)

\* open(path, 'wb') and f.write(content) under the disk's condition.
WriteSource(f, path, env) ==
    IF env.write = "ok" THEN write(f, path, "source") ELSE f

PersistReturnsPath(abbrev, ext, f, env, tried, wrote) ==
    IF env.write # "ok"
    THEN Result(NoPath, WriteSource(f, <<abbrev, ext>>, env), TRUE, tried,
                wrote, FALSE)
    ELSE Result(<<abbrev, ext>>, WriteSource(f, <<abbrev, ext>>, env), TRUE, tried,
                wrote \cup {<<abbrev, lower(ext)>>}, FALSE)

\* Save the original under its own extension; a raster is the result.
Persist(abbrev, ext, f, env, tried, wrote) ==
    IF env.write # "ok"
    THEN Result(NoPath, WriteSource(f, <<abbrev, ext>>, env), TRUE, tried,
                wrote, FALSE)
    ELSE Result(IF lower(ext) \in RasterExts THEN <<abbrev, ext>> ELSE NoPath,
                WriteSource(f, <<abbrev, ext>>, env), TRUE, tried,
                wrote \cup {<<abbrev, lower(ext)>>}, FALSE)

\* The asset is downloaded: an SVG is converted in memory with cairosvg, or
\* saved and converted with svglib; anything else, and an SVG no converter
\* took, is saved as it is.
AfterDownload(abbrev, ext, f, env) ==
    IF lower(ext) = ".svg" /\ cairosvg /\ env.cairo = "ok"
    THEN Result(<<abbrev, ".png">>, write(f, <<abbrev, ".png">>, "cairosvg"),
                TRUE, <<"cairosvg">>, {<<abbrev, ".png">>}, FALSE)
    ELSE LET tried1 == IF lower(ext) = ".svg" /\ cairosvg THEN <<"cairosvg">> ELSE <<>>
             bySvglib == lower(ext) = ".svg" /\ svglib_available
             f1 == IF bySvglib THEN WriteSource(f, <<abbrev, ".svg">>, env) ELSE f
             wrote1 == IF bySvglib /\ env.write = "ok" THEN {<<abbrev, ".svg">>} ELSE {}
             tried2 == IF bySvglib /\ env.write = "ok" THEN tried1 \o <<"svglib">> ELSE tried1
         IN  IF bySvglib /\ env.write = "ok" /\ env.svglib = "ok"
             THEN Result(<<abbrev, ".png">>, write(f1, <<abbrev, ".png">>, "svglib"),
                         TRUE, tried2, wrote1 \cup {<<abbrev, ".png">>}, FALSE)
             ELSE Persist(abbrev, ext, f1, env, tried2, wrote1)

ensure_logo_cached(team_obj, f, env) ==
    LET abbrev == AbbrevOf(team_obj)
        logo_url == LogoUrlOf(team_obj)
    IN  IF ~Truthy(abbrev) \/ ~Truthy(logo_url)
        THEN Result(NoPath, f, FALSE, <<>>, {}, FALSE)
        ELSE IF CachedRaster(f, abbrev) # NoPath
        THEN Result(CachedRaster(f, abbrev), f, FALSE, <<>>, {}, FALSE)
        ELSE IF exists(f, <<abbrev, ".svg">>)
        THEN ConvertExisting(abbrev, f, env)
        ELSE IF env.download = "fail"
        THEN DownloadFailed(f)
        ELSE AfterDownload(abbrev, ExtOf(logo_url), f, env)

-----------------------------------------------------------------------------
(* fetch_games *)

\* A score of the response: <<>> when the team object has none (None).
NoScore == <<>>

\* A team object of a game: abbreviation, logo URLs and the score.
Team(abbrev, darkLogo, logo, score) ==
    [isdict |-> TRUE, abbrev |-> abbrev, darkLogo |-> darkLogo, logo |-> logo,
     score |-> score]

\* game.get('awayTeam', {}) when the game has no such key.
NoTeam == Team(None, None, None, NoScore)

\* str(x) as an f-string writes it.
Str(x) == IF x = None THEN "None" ELSE x

Pad2(n) == IF n < 10 THEN "0" \o ToString(n) ELSE ToString(n)

\* start_time_utc.replace('Z', '+00:00')
replaceZ(s) ==
    CASE s = "2024-01-02T00:30:00Z" -> "2024-01-02T00:30:00+00:00"
      [] s = "2024-01-01T17:05:00Z" -> "2024-01-01T17:05:00+00:00"
      [] OTHER -> s

\* datetime.fromisoformat: the minute of the UTC day, -1 for ValueError.
fromisoformat(s) ==
    CASE s = "2024-01-02T00:30:00+00:00" -> 30
      [] s = "2024-01-01T17:05:00+00:00" -> 17 * 60 + 5
      [] OTHER -> 0 - 1

\* utc_time.astimezone(): the minute of the local day, utcoffset in minutes.
astimezone(minute, utcoffset) == (minute + utcoffset) % (24 * 60)

\* local_time.strftime('%I:%M %p')
strftime(minute) ==
    LET h == minute \div 60
        h12 == IF h % 12 = 0 THEN 12 ELSE h % 12
    IN  Pad2(h12) \o ":" \o Pad2(minute % 60) \o (IF h < 12 THEN " AM" ELSE " PM")

\* The display time of a game without scores.
TimeDisplay(start_time_utc, utcoffset) ==
    IF ~Truthy(start_time_utc) THEN "TBD"
    ELSE IF fromisoformat(replaceZ(start_time_utc)) < 0 THEN "TBD"
    ELSE strftime(astimezone(fromisoformat(replaceZ(start_time_utc)), utcoffset))

HasScoresTruthy(away_score, home_score) ==
    /\ away_score # NoScore /\ away_score # <<0>>
    /\ home_score # NoScore /\ home_score # <<0>>

\* away_score is not None and home_score is not None
HasScores(away_score, home_score) == away_score # NoScore /\ home_score # NoScore

DayMatchesAny(day, date_str) == TRUE

\* not (day.get('date') != date_str)
DayMatches(day, date_str) == day.date = date_str

\* What fetch_games keeps of one ensure_logo_cached call.
CallLog(team_obj, r) ==
    [team_obj |-> team_obj, ret |-> r.ret, requested |-> r.requested,
     raised |-> r.raised]

\* The line and the record of one game, its logos resolved.
Emit(st, game, away_logo, home_logo, utcoffset) ==
    LET away_team == game.awayTeam.abbrev
        home_team == game.homeTeam.abbrev
        away_score == game.awayTeam.score
        home_score == game.homeTeam.score
        time_display == TimeDisplay(game.startTimeUTC, utcoffset)
    IN  IF HasScores(away_score, home_score)
        THEN [st EXCEPT
                !.lines = Append(@, Str(away_team) \o " vs " \o Str(home_team) \o " - "
                                    \o ToString(away_score[1]) \o ":"
                                    \o ToString(home_score[1])),
                !.games_data = Append(@,
                    [away_abbrev |-> away_team, home_abbrev |-> home_team,
                     away_score |-> away_score, home_score |-> home_score,
                     away_logo |-> away_logo, home_logo |-> home_logo,
                     is_scheduled |-> FALSE, start_time |-> None])]
        ELSE [st EXCEPT
                !.lines = Append(@, Str(away_team) \o " vs " \o Str(home_team) \o " - "
                                    \o time_display),
                !.games_data = Append(@,
                    [away_abbrev |-> away_team, home_abbrev |-> home_team,
                     away_score |-> NoScore, home_score |-> NoScore,
                     away_logo |-> away_logo, home_logo |-> home_logo,
                     is_scheduled |-> TRUE, start_time |-> time_display])]

\* The body of `for game in day['games']`: both logos, then the record.  An
\* exception of ensure_logo_cached would leave fetch_games.
GameBody(st, game, env, utcoffset) ==
    LET ra == ensure_logo_cached(game.awayTeam, st.fs, env)
        sa == [st EXCEPT !.fs = ra.fs, !.calls = Append(@, CallLog(game.awayTeam, ra)),
                         !.raised = ra.raised]
        rh == ensure_logo_cached(game.homeTeam, sa.fs, env)
        sh == [sa EXCEPT !.fs = rh.fs, !.calls = Append(@, CallLog(game.homeTeam, rh)),
                         !.raised = rh.raised]
    IN  IF ra.raised THEN sa
        ELSE IF rh.raised THEN sh
        ELSE Emit(sh, game, ra.ret, rh.ret, utcoffset)

RECURSIVE GamesLoop(_, _, _, _, _)
\* for game in day['games']: ...
GamesLoop(st, games, i, env, utcoffset) ==
    IF i > Len(games) \/ st.raised THEN st
    ELSE GamesLoop(GameBody(st, games[i], env, utcoffset), games, i + 1, env, utcoffset)

RECURSIVE DaysLoop(_, _, _, _, _, _)
\* for day in data['gameWeek']: ...
DaysLoop(st, gameWeek, i, date_str, env, utcoffset) ==
    IF i > Len(gameWeek) \/ st.raised THEN st
    ELSE DaysLoop(IF DayMatches(gameWeek[i], date_str) /\ gameWeek[i].hasGames
                  THEN GamesLoop(st, gameWeek[i].games, 1, env, utcoffset)
                  ELSE st,
                  gameWeek, i + 1, date_str, env, utcoffset)

\* fetch_games(date_str) on the response `data` (data.ok = FALSE: the request
\* or the JSON decoding raised), the cache directory f, under env.
fetch_games(date_str, data, f, env, utcoffset) ==
    LET st0 == [lines |-> <<>>, games_data |-> <<>>, fs |-> f, calls |-> <<>>,
                raised |-> FALSE]
    IN  IF ~data.ok THEN [st0 EXCEPT !.raised = TRUE]
        ELSE IF ~data.hasGameWeek \/ data.gameWeek = <<>> THEN st0
        ELSE DaysLoop(st0, data.gameWeek, 1, date_str, env, utcoffset)

-----------------------------------------------------------------------------
(* The responses of the schedule endpoint *)

\* The longest gameWeek, and the most games of a day, of the responses with
\* several days.
MaxDays == 2

MaxGames == 2

Dates == {"2024-01-01", "2024-01-02"}

Scores == {NoScore, <<0>>, <<3>>}

StartTimes == {None, "", "2024-01-02T00:30:00Z", "2024-01-01T17:05:00Z", "7pm"}

\* The local UTC offsets, in minutes.
UtcOffsets == {0 - 300, 330}

Away(score) == Team("AAA", None, "light.svg", score)

Home(score) == Team("BBB", None, "light.png", score)

Game(awayTeam, homeTeam, startTimeUTC) ==
    [awayTeam |-> awayTeam, homeTeam |-> homeTeam, startTimeUTC |-> startTimeUTC]

\* AAA at BBB with every pair of scores and every start time; BBB at AAA;
\* a game without its away team.
Games ==
    {Game(Away(a), Home(h), "2024-01-02T00:30:00Z") : a \in Scores, h \in Scores}
    \cup {Game(Away(NoScore), Home(NoScore), t) : t \in StartTimes}
    \cup {Game(Team("BBB", "dark.svg", "light.png", <<2>>), Team("AAA", "", "light", <<1>>), None),
          Game(NoTeam, Home(NoScore), "2024-01-01T17:05:00Z")}

Day(date, hasGames, games) == [date |-> date, hasGames |-> hasGames, games |-> games]

\* The game the days of the longer responses carry: a final on the first
\* date, an upcoming game on the second.
GameOn(date) ==
    IF date = "2024-01-01" THEN Game(Away(<<3>>), Home(<<2>>), None)
    ELSE Game(Team("BBB", None, "light.svg", NoScore), Team("AAA", None, "light.svg", NoScore),
              "2024-01-01T17:05:00Z")

WeekDays == {Day(d, TRUE, [i \in 1..n |-> GameOn(d)]) : d \in Dates, n \in 0..MaxGames}

Response(gameWeek) == [ok |-> TRUE, hasGameWeek |-> TRUE, gameWeek |-> gameWeek]

\* One day with one game, or less: every game, every way of having none.
ShortResponses ==
    {[ok |-> FALSE, hasGameWeek |-> FALSE, gameWeek |-> <<>>],
     [ok |-> TRUE, hasGameWeek |-> FALSE, gameWeek |-> <<>>],
     Response(<<>>)}
    \cup {Response(<<Day(d, FALSE, <<>>)>>) : d \in Dates \cup {None}}
    \cup {Response(<<Day("2024-01-01", TRUE, <<g>>)>>) : g \in Games}

\* Up to MaxDays days of up to MaxGames games each.
LongResponses == UNION {{Response(w) : w \in [1..n -> WeekDays]} : n \in 1..MaxDays}

AllOk == [download |-> "ok", cairo |-> "ok", svglib |-> "ok", write |-> "ok"]

\* The calls of fetch_games modelled: the short responses under every
\* condition, the long ones with the logo host up or down.
FetchInputs ==
    [date_str : Dates, data : ShortResponses, env : Envs, utcoffset : UtcOffsets]
    \cup [date_str : Dates, data : LongResponses,
          env : {AllOk, [AllOk EXCEPT !.download = "fail"]}, utcoffset : {330}]

-----------------------------------------------------------------------------
(* The window of NHLscores.py: refresh_games, auto_refresh, toggle_auto_refresh *)

\* The most after ids the event loop hands out in one run of the program.
MaxAfter == 5

\* The delay of root.after(30000, auto_refresh).
AutoRefreshMs == 30000

\* The delay of root.after(100, refresh_games).
OpenRefreshMs == 100

\* The delay of root.after(200, update_background).
BackgroundMs == 200

\* default_date: yesterday.
default_date == "2024-01-01"

\* datetime.now().strftime('%Y-%m-%d') when the checkbox is ticked.
Today == "2024-01-02"

\* ttk.Label(container, text=f"No games scheduled for {selected_date}")
NoGamesLabel(selected_date) ==
    [kind |-> "label", away |-> <<>>, text |-> "No games scheduled for " \o selected_date,
     home |-> <<>>]

\* The logo of a row: the image of a cached raster file that opens, else the
\* abbreviation as text.
LogoWidget(logo, abbrev, f, imageok) ==
    IF logo # NoPath /\ exists(f, logo) /\ lower(logo[2]) \in RasterExts /\ imageok
    THEN [kind |-> "image", path |-> logo, text |-> ""]
    ELSE [kind |-> "text", path |-> NoPath, text |-> Str(abbrev)]

\* The label in the middle of a row.
RowText(game) ==
    IF game.is_scheduled
    THEN Str(game.away_abbrev) \o " @ " \o Str(game.home_abbrev) \o " - " \o game.start_time
    ELSE Str(game.away_abbrev) \o " " \o ToString(game.away_score[1]) \o " vs "
         \o Str(game.home_abbrev) \o " " \o ToString(game.home_score[1])

\* A row frame with its three children.
Row(game, f, imageok) ==
    [kind |-> "row",
     away |-> <<LogoWidget(game.away_logo, game.away_abbrev, f, imageok)>>,
     text |-> RowText(game),
     home |-> <<LogoWidget(game.home_logo, game.home_abbrev, f, imageok)>>]

\* A row frame without children.
EmptyRow == [kind |-> "row", away |-> <<>>, text |-> "", home |-> <<>>]

\* refresh_games() with selected_date in the date entry: the container is
\* emptied, the games fetched, and the container and the title rebuilt.  An
\* exception of fetch_games leaves refresh_games with the container empty.
Display(selected_date, r, imageok, ttl) ==
    IF r.raised
    THEN [container |-> <<>>, title |-> ttl, fs |-> r.fs, fetched |-> "raised"]
    ELSE IF r.games_data = <<>>
    THEN [container |-> <<NoGamesLabel(selected_date)>>, title |-> ttl, fs |-> r.fs,
          fetched |-> "empty"]
    ELSE [container |-> [i \in 1..Len(r.games_data) |->
                            Row(r.games_data[i], r.fs, imageok)],
          title |-> "NHL Scores - " \o selected_date, fs |-> r.fs,
          fetched |-> "games"]

\* refresh_games() with selected_date in the date entry and the title ttl.
refresh_games(selected_date, in, f, ttl) ==
    Display(selected_date, fetch_games(selected_date, in.data, f, in.env, in.utcoffset),
            in.imageok, ttl)

\* The initial display: `for game in games_data` makes the row frames, and the
\* labels, written after the loop, go to the last of them.
InitialDisplay(lines, games_data, f, imageok) ==
    IF lines = <<>> THEN <<>>
    ELSE [i \in 1..Len(games_data) |->
            IF i < Len(games_data) THEN EmptyRow
            ELSE Row(games_data[i], f, imageok)]

RECURSIVE JoinWithSpaces(_)
\* " ".join(lines)
JoinWithSpaces(lines) ==
    IF lines = <<>> THEN ""
    ELSE IF Len(lines) = 1 THEN lines[1]
    ELSE lines[1] \o " " \o JoinWithSpaces(Tail(lines))

RECURSIVE Join(_)
\* "\n".join(lines)
Join(lines) ==
    IF lines = <<>> THEN ""
    ELSE IF Len(lines) = 1 THEN lines[1]
    ELSE lines[1] \o "\n" \o Join(Tail(lines))

\* root.after(ms, func): the queue with the new callback.
after(queue, seq, ms, func) == queue \cup {[id |-> seq + 1, ms |-> ms, func |-> func]}

\* root.after_cancel(id)
after_cancel(queue, id) == {e \in queue : e.id # id}

\* The callbacks of func that are pending.
Pending(func) == {e \in after_queue : e.func = func}

\* The event loop runs the callback that is due first; the callbacks of the
\* start of the program are due before any the handlers make later.
Due(e) == e \in after_queue /\ \A o \in after_queue : o.ms >= e.ms

\* The else branch of toggle_auto_refresh without root.after_cancel.
toggle_off_forgets(job, queue) == [job |-> <<>>, queue |-> queue]

\* The else branch of toggle_auto_refresh: the checkbox was cleared.
toggle_off(job, queue) ==
    IF job # <<>> THEN [job |-> <<>>, queue |-> after_cancel(queue, job[1])]
    ELSE [job |-> job, queue |-> queue]

\* What the schedule endpoint answers to the window.
GuiResponses ==
    {[ok |-> FALSE, hasGameWeek |-> FALSE, gameWeek |-> <<>>], Response(<<>>)}
    \cup {Response(<<Day(d, TRUE, <<GameOn(d)>>)>>) : d \in Dates}
    \cup {Response(<<Day(default_date, TRUE, <<GameOn(default_date), GameOn(Today)>>)>>)}

\* The conditions of one fetch from the window.
GuiInputs ==
    [data : GuiResponses, env : {AllOk, [AllOk EXCEPT !.download = "fail"]},
     utcoffset : {330}, imageok : BOOLEAN]

-----------------------------------------------------------------------------
(* The schedule fetcher on its own: fetch after fetch over one cache *)

InitFetch ==
    /\ fs = [p \in Files |-> Absent]
    /\ cairosvg \in BOOLEAN
    /\ svglib_available \in BOOLEAN
    /\ selenium = FALSE
    /\ PIL = TRUE
    /\ call = <<>>
    /\ batch = <<>>
    /\ fetch = <<>>
    /\ WindowOff

\* fetch_games(date_str) runs.
FetchGames ==
    /\ Idle
    /\ \E in \in FetchInputs :
          LET r == fetch_games(in.date_str, in.data, fs, in.env, in.utcoffset)
          IN  /\ fs' = r.fs
              /\ fetch' = <<[date_str |-> in.date_str, data |-> in.data, env |-> in.env,
                             before |-> fs, lines |-> r.lines,
                             games_data |-> r.games_data, calls |-> r.calls,
                             raised |-> r.raised]>>
    /\ UNCHANGED <<libs, call, batch, gui>>

\* The caller takes the lines and the records.
FetchReturns ==
    /\ fetch # <<>>
    /\ fetch' = <<>>
    /\ UNCHANGED <<fs, libs, call, batch, gui>>

NextFetch == FetchGames \/ FetchReturns

SpecFetch == InitFetch /\ [][NextFetch]_vars

-----------------------------------------------------------------------------
(* convert_logos.py *)

\* converter_available after the three import attempts.
ConverterAvailable ==
    IF cairosvg THEN "cairosvg"
    ELSE IF svglib_available THEN "svglib"
    ELSE IF selenium THEN "selenium"
    ELSE None

\* What one conversion can do: raise, write the PNG, or (selenium's
\* save_screenshot, which reports an IOError by returning False) write
\* nothing and raise nothing.
Outcomes(converter) ==
    IF converter = "selenium" THEN {"ok", "raise", "silent"} ELSE {"ok", "raise"}

\* [f for f in os.listdir(LOGO_DIR) if f.endswith('.svg')], as a set.
SvgFiles(f) == {a \in Abbrevs : exists(f, <<a, ".svg">>)}

\* The orders os.listdir may give a set of files in.
Orders(S) == {s \in [1..Cardinality(S) -> S] : \A a \in S : \E i \in DOMAIN s : s[i] = a}

LoopBodyNoSkip(st, a, converter, outs) ==
    IF outs[a] = "raise"
    THEN [st EXCEPT !.failed = @ + 1, !.handled = Append(@, a)]
    ELSE [st EXCEPT !.converted = @ + 1, !.handled = Append(@, a),
                    !.fs = IF outs[a] = "ok"
                           THEN write(@, <<a, ".png">>, converter) ELSE @]

\* One iteration of the loop over svg_files: svg_file is a's SVG.
LoopBody(st, a, converter, outs) ==
    IF exists(st.fs, <<a, ".png">>)
    THEN [st EXCEPT !.skipped = @ + 1, !.handled = Append(@, a)]
    ELSE IF outs[a] = "raise"
    THEN [st EXCEPT !.failed = @ + 1, !.handled = Append(@, a)]
    ELSE [st EXCEPT !.converted = @ + 1, !.handled = Append(@, a),
                    !.fs = IF outs[a] = "ok"
                           THEN write(@, <<a, ".png">>, converter) ELSE @]

RECURSIVE ConvertLoop(_, _, _, _, _)
\* for svg_file in svg_files: ...
ConvertLoop(svg_files, i, st, converter, outs) ==
    IF i > Len(svg_files) THEN st
    ELSE ConvertLoop(svg_files, i + 1, LoopBody(st, svg_files[i], converter, outs),
                     converter, outs)

\* The script with the search for SVG files moved before the probing of the
\* converters.
convert_logos_search_first(f, svg_files, outs) ==
    LET st0 == [fs |-> f, converted |-> 0, skipped |-> 0, failed |-> 0,
                handled |-> <<>>]
        base == [before |-> f, converter |-> ConverterAvailable,
                 svg_files |-> svg_files, looped |-> FALSE, exit |-> 1, st |-> st0]
    IN  IF ~PIL THEN base
        ELSE IF svg_files = <<>> THEN [base EXCEPT !.exit = 0]
        ELSE IF ConverterAvailable = None THEN base
        ELSE [base EXCEPT !.exit = 0, !.looped = TRUE,
                          !.st = ConvertLoop(svg_files, 1, st0, ConverterAvailable, outs)]

\* One run of the script, from its first line to its exit.
convert_logos(f, svg_files, outs) ==
    LET st0 == [fs |-> f, converted |-> 0, skipped |-> 0, failed |-> 0,
                handled |-> <<>>]
        base == [before |-> f, converter |-> ConverterAvailable,
                 svg_files |-> svg_files, looped |-> FALSE, exit |-> 1, st |-> st0]
    IN  IF ~PIL THEN base
        ELSE IF ConverterAvailable = None THEN base
        ELSE IF svg_files = <<>> THEN [base EXCEPT !.exit = 0]
        ELSE [base EXCEPT !.exit = 0, !.looped = TRUE,
                          !.st = ConvertLoop(svg_files, 1, st0, ConverterAvailable, outs)]

-----------------------------------------------------------------------------
(* The cache directory under logo resolutions and converter runs *)

InitCache ==
    /\ fs = [p \in Files |-> Absent]
    /\ cairosvg \in BOOLEAN
    /\ svglib_available \in BOOLEAN
    /\ selenium \in BOOLEAN
    /\ (cairosvg \/ svglib_available) => ~selenium
    /\ PIL = TRUE
    /\ call = <<>>
    /\ batch = <<>>
    /\ fetch = <<>>
    /\ WindowOff

\* ensure_logo_cached(team_obj) runs, on any team object.
EnsureLogoCached ==
    /\ Idle
    /\ \E team_obj \in TeamObjs, env \in Envs :
          LET r == ensure_logo_cached(team_obj, fs, env)
          IN  /\ fs' = r.fs
              /\ call' = <<[team_obj |-> team_obj, env |-> env, before |-> fs,
                            ret |-> r.ret, requested |-> r.requested,
                            tried |-> r.tried, wrote |-> r.wrote,
                            raised |-> r.raised]>>
    /\ UNCHANGED <<libs, batch, fetch, gui>>

\* The caller takes the path; the call's locals are gone.
CallReturns ==
    /\ call # <<>>
    /\ call' = <<>>
    /\ UNCHANGED <<fs, libs, batch, fetch, gui>>

\* python convert_logos.py runs to its exit.
ConvertLogos ==
    /\ Idle
    /\ \E svg_files \in Orders(SvgFiles(fs)),
          outs \in [Abbrevs -> Outcomes(ConverterAvailable)] :
          LET r == convert_logos(fs, svg_files, outs)
          IN  /\ fs' = r.st.fs
              /\ batch' = <<r>>
    /\ UNCHANGED <<libs, call, fetch, gui>>

\* The process is gone.
BatchExits ==
    /\ batch # <<>>
    /\ batch' = <<>>
    /\ UNCHANGED <<fs, libs, call, fetch, gui>>

NextCache == EnsureLogoCached \/ CallReturns \/ ConvertLogos \/ BatchExits

SpecCache == InitCache /\ [][NextCache]_vars

-----------------------------------------------------------------------------
(* The batch converter on its own: run after run, over every directory and
   every set of installed libraries *)

\* The directories the script may find: for each team, its SVG and its PNG
\* there or not.
Directories ==
    {f \in [Files -> {Absent, "source"}] :
        \A p \in Files : p[2] \notin {".svg", ".png"} => f[p] = Absent}

InitBatch ==
    /\ fs \in Directories
    /\ cairosvg \in BOOLEAN
    /\ svglib_available \in BOOLEAN
    /\ selenium \in BOOLEAN
    /\ PIL \in BOOLEAN
    /\ call = <<>>
    /\ batch = <<>>
    /\ fetch = <<>>
    /\ WindowOff

NextBatch == ConvertLogos \/ BatchExits

SpecBatch == InitBatch /\ [][NextBatch]_vars

-----------------------------------------------------------------------------
(* Properties of the exit status of the batch converter (SpecBatch) *)

\* The script has just run to its exit.
Exited == batch # <<>>

\* No converter library could be imported.
NoConverter == ~cairosvg /\ ~svglib_available /\ ~selenium

\* C11 as stated: the exit status is 0 when the directory holds no SVG file,
\* and 1 when no converter library is available, whatever else is the case.
C11_ExitStatusAsStated ==
    Exited =>
        /\ SvgFiles(batch[1].before) = {} => batch[1].exit = 0
        /\ NoConverter => batch[1].exit = 1

\* C11: the exit status is 1 when Pillow or every converter library is
\* missing, whatever the directory holds, and the directory is not read; with
\* Pillow and a converter it is 0, and without SVG files nothing is converted.
C11_ExitStatus ==
    Exited =>
        LET b == batch[1]
        IN  /\ (~PIL \/ NoConverter) =>
                /\ b.exit = 1
                /\ ~b.looped
                /\ fs = b.before
            /\ (PIL /\ ~NoConverter) =>
                /\ b.exit = 0
                /\ b.looped = (SvgFiles(b.before) # {})
                /\ SvgFiles(b.before) = {} => fs = b.before

\* C11's case: a run with Pillow but no converter library over a directory
\* without SVG files; it exits with status 1.
C11_Witness ==
    /\ Exited
    /\ PIL
    /\ NoConverter
    /\ SvgFiles(batch[1].before) = {}
    /\ batch[1].exit = 1

-----------------------------------------------------------------------------
(* The program NHLscores.py: the start, then the event loop of the window *)

\* What a handler of the window reads and writes.
Window ==
    [fs |-> fs, container |-> container, title |-> title, date_var |-> date_var,
     job |-> auto_refresh_job, queue |-> after_queue, seq |-> after_seq,
     fetched |-> "no", cancelled |-> FALSE]

\* The window w once refresh_games() ended as r.
Shown(w, r) ==
    [w EXCEPT !.fs = r.fs, !.container = r.container, !.title = r.title,
              !.fetched = r.fetched]

\* refresh_games() called by a handler of the window w.
Refreshed(w, in) == Shown(w, refresh_games(w.date_var, in, w.fs, w.title))

\* auto_refresh_job = root.after(30000, auto_refresh)
Scheduled(w) ==
    [w EXCEPT !.job = <<w.seq + 1>>,
              !.queue = after(w.queue, w.seq, AutoRefreshMs, "auto_refresh"),
              !.seq = w.seq + 1]

\* refresh_games() and then root.after: an exception of refresh_games leaves
\* the handler before root.after.
Rescheduled(r) == IF r.fetched = "raised" THEN r ELSE Scheduled(r)

\* auto_refresh()
auto_refresh(w, enabled, in) ==
    IF enabled THEN Rescheduled(Refreshed(w, in)) ELSE w

\* toggle_auto_refresh(), the checkbox now at `enabled`.
toggle_auto_refresh(w, enabled, today, in) ==
    IF enabled
    THEN Rescheduled(Refreshed([w EXCEPT !.date_var = today], in))
    ELSE LET t == toggle_off(w.job, w.queue)
         IN  [w EXCEPT !.job = t.job, !.queue = t.queue,
                       !.cancelled = (t.queue # w.queue)]

\* The window after a handler left it as w.
Apply(w, handler) ==
    /\ fs' = w.fs
    /\ container' = w.container
    /\ title' = w.title
    /\ date_var' = w.date_var
    /\ auto_refresh_job' = w.job
    /\ after_queue' = w.queue
    /\ after_seq' = w.seq
    /\ last' = [handler |-> handler, fetched |-> w.fetched, cancelled |-> w.cancelled,
                lines |-> <<>>, games_data |-> <<>>]

InitGui ==
    /\ fs = [p \in Files |-> Absent]
    /\ cairosvg \in BOOLEAN
    /\ svglib_available = FALSE
    /\ selenium = FALSE
    /\ PIL \in BOOLEAN
    /\ tk \in BOOLEAN
    /\ call = <<>>
    /\ batch = <<>>
    /\ fetch = <<>>
    /\ pc = "start"
    /\ alerts = <<>>
    /\ date_var = ""
    /\ container = <<>>
    /\ title = ""
    /\ auto_refresh_var = FALSE
    /\ auto_refresh_job = <<>>
    /\ after_queue = {}
    /\ after_seq = 0
    /\ last = [handler |-> "", fetched |-> "no", cancelled |-> FALSE,
               lines |-> <<>>, games_data |-> <<>>]

\* lines, games_data = fetch_games(default_date), for every condition of the
\* fetch.
FirstFetch ==
    {[in |-> in] @@ fetch_games(default_date, in.data, fs, in.env, in.utcoffset) :
        in \in GuiInputs}

\* The module body from the initial fetch on: an exception of fetch_games ends
\* the program; without games the "no games" box is shown; then the window is
\* built and the event loop entered, or the lines are shown in a box.
Startup ==
    /\ pc = "start"
    /\ \E r \in FirstFetch :
          LET nogames == IF r.lines = <<>>
                         THEN <<"No games scheduled for " \o default_date \o ".">>
                         ELSE <<>>
          IN  /\ fs' = r.fs
              /\ IF r.raised
                 THEN /\ pc' = "crashed"
                      /\ UNCHANGED <<alerts, date_var, container, title, after_queue,
                                     after_seq>>
                 ELSE IF tk /\ PIL
                 THEN /\ pc' = "mainloop"
                      /\ alerts' = nogames
                      /\ date_var' = default_date
                      /\ title' = "NHL Scores"
                      /\ container' = InitialDisplay(r.lines, r.games_data, r.fs, r.in.imageok)
                      /\ after_queue' = after(after({}, 0, OpenRefreshMs, "refresh_games"),
                                              1, BackgroundMs, "update_background")
                      /\ after_seq' = 2
                 ELSE /\ pc' = "exited"
                      /\ alerts' = IF r.lines # <<>> THEN <<Join(r.lines)>> ELSE nogames
                      /\ UNCHANGED <<date_var, container, title, after_queue, after_seq>>
              /\ last' = [handler |-> "startup",
                          fetched |-> IF r.raised THEN "raised"
                                      ELSE IF r.lines = <<>> THEN "empty" ELSE "games",
                          cancelled |-> FALSE,
                          lines |-> r.lines, games_data |-> r.games_data]
    /\ UNCHANGED <<libs, call, batch, fetch, auto_refresh_var, auto_refresh_job>>

\* The Refresh button.
ClickRefresh ==
    /\ pc = "mainloop"
    /\ \E in \in GuiInputs : Apply(Refreshed(Window, in), "refresh_games")
    /\ UNCHANGED <<libs, call, batch, fetch, pc, alerts, auto_refresh_var>>

\* The callback of root.after(100, refresh_games).
RunRefreshGames ==
    /\ pc = "mainloop"
    /\ \E e \in Pending("refresh_games") :
          /\ Due(e)
          /\ \E in \in GuiInputs :
                Apply(Refreshed([Window EXCEPT !.queue = @ \ {e}], in), "after refresh_games")
    /\ UNCHANGED <<libs, call, batch, fetch, pc, alerts, auto_refresh_var>>

\* The callback of root.after(200, update_background).
UpdateBackground ==
    /\ pc = "mainloop"
    /\ \E e \in Pending("update_background") :
          /\ Due(e)
          /\ Apply([Window EXCEPT !.queue = @ \ {e}], "update_background")
    /\ UNCHANGED <<libs, call, batch, fetch, pc, alerts, auto_refresh_var>>

\* The callback of root.after(30000, auto_refresh).
AutoRefresh ==
    /\ pc = "mainloop"
    /\ after_seq < MaxAfter
    /\ \E e \in Pending("auto_refresh") :
          /\ Due(e)
          /\ \E in \in GuiInputs :
                Apply(auto_refresh([Window EXCEPT !.queue = @ \ {e}], auto_refresh_var, in),
                      "auto_refresh")
    /\ UNCHANGED <<libs, call, batch, fetch, pc, alerts, auto_refresh_var>>

\* A click on the "Live Games" checkbox: the variable flips, then the command
\* toggle_auto_refresh runs.
ToggleAutoRefresh ==
    /\ pc = "mainloop"
    /\ auto_refresh_var \/ after_seq < MaxAfter
    /\ auto_refresh_var' = ~auto_refresh_var
    /\ \E in \in GuiInputs :
          Apply(toggle_auto_refresh(Window, ~auto_refresh_var, Today, in),
                "toggle_auto_refresh")
    /\ UNCHANGED <<libs, call, batch, fetch, pc, alerts>>

\* The user types another date into the date entry.
EditDate ==
    /\ pc = "mainloop"
    /\ \E d \in Dates \ {date_var} : date_var' = d
    /\ UNCHANGED <<fs, libs, call, batch, fetch, pc, alerts, container, title,
                   auto_refresh_var, auto_refresh_job, after_queue, after_seq, last>>

\* The Close button: root.destroy ends the event loop and the program.
Close ==
    /\ pc = "mainloop"
    /\ pc' = "exited"
    /\ after_queue' = {}
    /\ UNCHANGED <<fs, libs, call, batch, fetch, alerts, date_var, container, title,
                   auto_refresh_var, auto_refresh_job, after_seq, last>>

NextGui ==
    \/ Startup
    \/ ClickRefresh
    \/ RunRefreshGames
    \/ UpdateBackground
    \/ AutoRefresh
    \/ ToggleAutoRefresh
    \/ EditDate
    \/ Close

SpecGui == InitGui /\ [][NextGui]_vars

-----------------------------------------------------------------------------
(* Properties of the auto-refresh of the window (SpecGui) *)

\* The window is open and its event loop running.
Running == pc = "mainloop"

\* C7: while the "Live Games" checkbox is ticked, an auto_refresh callback is
\* pending on the 30 second delay in every state of the running window, also
\* after a refresh that found no games or whose fetch failed.
C7_EnabledKeepsCallbackPending ==
    (Running /\ auto_refresh_var) =>
        \E e \in Pending("auto_refresh") : e.ms = AutoRefreshMs

\* The module body has just run, from the initial fetch to root.mainloop() or
\* to the exit, and fetch_games returned.
Started == last.handler = "startup" /\ last.fetched # "raised"

\* The window cannot be built: tkinter or Pillow is missing.
NoGui == ~(tk /\ PIL)

\* C12: without tkinter or without Pillow, a start whose fetch returned shows
\* exactly one message box and exits: the lines joined by newlines when there
\* are lines, the "No games scheduled" text when there are none.
C12_OneAlertThenExit ==
    (Started /\ NoGui) =>
        /\ pc = "exited"
        /\ Len(alerts) = 1
        /\ after_queue = {}
        /\ container = <<>>
        /\ Len(last.lines) <= 2
        /\ Len(last.lines) = 1 => alerts[1] = last.lines[1]
        /\ Len(last.lines) = 2 => alerts[1] = last.lines[1] \o "\n" \o last.lines[2]
        /\ last.lines = <<>> =>
                alerts[1] = "No games scheduled for " \o default_date \o "."

\* C12's case: Pillow is missing and the fetch returned two games; the one
\* message box holds both lines.
C12_Witness ==
    /\ Started
    /\ tk
    /\ ~PIL
    /\ Len(last.lines) = 2
    /\ pc = "exited"
    /\ alerts = <<last.lines[1] \o "\n" \o last.lines[2]>>

\* A logo of a row of the game record: the image of its logo file, or its
\* abbreviation as text.
ImageOrText(widgets, logo, abbrev) ==
    /\ Len(widgets) = 1
    /\ \/ /\ logo # NoPath
          /\ widgets[1] = [kind |-> "image", path |-> logo, text |-> ""]
       \/ widgets[1] = [kind |-> "text", path |-> NoPath, text |-> Str(abbrev)]

\* C13: with tkinter and Pillow, a start whose fetch returned reaches the
\* event loop with one row per game of games_data in the container, each with
\* the away logo or abbreviation, the label of the game and the home logo or
\* abbreviation; without games the container is empty.
C13_InitialDisplayShowsEveryGame ==
    (Started /\ ~NoGui) =>
        /\ pc \in {"mainloop", "exited"}
        /\ Len(container) = Len(last.games_data)
        /\ \A i \in 1..Len(last.games_data) :
            LET game == last.games_data[i]
                row == container[i]
            IN  /\ row.kind = "row"
                /\ ImageOrText(row.away, game.away_logo, game.away_abbrev)
                /\ row.text = RowText(game)
                /\ ImageOrText(row.home, game.home_logo, game.home_abbrev)

\* C8: clearing the checkbox leaves no auto_refresh callback pending, an
\* auto_refresh callback fetches only with the checkbox ticked, and at no time
\* is more than one auto_refresh callback pending.
C8_ToggleOffClearsCallback ==
    /\ Cardinality(Pending("auto_refresh")) <= 1
    /\ (Running /\ ~auto_refresh_var) => Pending("auto_refresh") = {}
    /\ (last.handler = "toggle_auto_refresh" /\ ~auto_refresh_var) =>
            /\ Pending("auto_refresh") = {}
            /\ auto_refresh_job = <<>>
    /\ (last.handler = "auto_refresh" /\ last.fetched # "no") => auto_refresh_var

\* C8's case: the checkbox is cleared while an auto_refresh callback made by an
\* earlier tick of the timer was pending, and that callback is cancelled.
C8_Witness ==
    /\ Running
    /\ last.handler = "toggle_auto_refresh"
    /\ ~auto_refresh_var
    /\ last.cancelled
    /\ after_seq >= 4

-----------------------------------------------------------------------------
(* Properties of the cache directory (SpecCache) *)

\* The call that just ran was on a team object with an abbreviation and a
\* logo URL.
Resolving == call # <<>> /\ Truthy(AbbrevOf(call[1].team_obj))
                         /\ Truthy(LogoUrlOf(call[1].team_obj))

\* The converters of NHLscores.py in the order the resolver tries them.
Available ==
    (IF cairosvg THEN <<"cairosvg">> ELSE <<>>)
        \o (IF svglib_available THEN <<"svglib">> ELSE <<>>)

\* C1: once a raster file (PNG or JPEG) exists for an abbreviation, a later
\* call for that abbreviation returns the cached path, requests nothing,
\* converts nothing and writes no file.
C1_CachedRasterIsFinal ==
    Resolving =>
        LET c == call[1]
            a == AbbrevOf(c.team_obj)
        IN  (\E e \in {".png", ".jpg"} : exists(c.before, <<a, e>>)) =>
                /\ c.ret # NoPath
                /\ c.ret[1] = a
                /\ lower(c.ret[2]) \in RasterExts
                /\ exists(c.before, c.ret)
                /\ ~c.requested
                /\ c.tried = <<>>
                /\ c.wrote = {}
                /\ fs = c.before

\* C5 as stated: with a cached SVG, no raster, and every available converter
\* failing, the call goes on to the download.
C5_FallsThroughToDownload ==
    Resolving =>
        LET c == call[1]
            a == AbbrevOf(c.team_obj)
        IN  (/\ exists(c.before, <<a, ".svg">>)
             /\ ~exists(c.before, <<a, ".png">>)
             /\ ~exists(c.before, <<a, ".jpg">>)
             /\ c.tried # <<>>
             /\ ~exists(fs, <<a, ".png">>)) => c.requested

\* C5, amended: the steps come in the order cached PNG, cached SVG
\* conversion, download, and each of the first two ends the call whenever it
\* applies: with a cached SVG and no PNG the converters are tried, cairosvg
\* before svglib, up to the first that succeeds; the call returns the PNG it
\* wrote, or no path when every available converter failed, and never
\* requests the download.  The download is requested only with neither file.
C5_StepsInOrder ==
    Resolving =>
        LET c == call[1]
            a == AbbrevOf(c.team_obj)
            png == <<a, ".png">>
        IN  /\ exists(c.before, png) =>
                c.ret = png /\ c.tried = <<>> /\ ~c.requested /\ fs = c.before
            /\ (~exists(c.before, png) /\ exists(c.before, <<a, ".svg">>)) =>
                /\ ~c.requested
                /\ \E k \in 0..Len(Available) :
                    /\ c.tried = SubSeq(Available, 1, k)
                    /\ \A j \in 1..(k - 1) : c.env[IF c.tried[j] = "cairosvg" THEN "cairo" ELSE "svglib"] = "fail"
                    /\ \/ /\ c.ret = png
                          /\ k >= 1
                          /\ fs = write(c.before, png, c.tried[k])
                       \/ /\ c.ret = NoPath
                          /\ k = Len(Available)
                          /\ fs = c.before
            /\ (~exists(c.before, png) /\ ~exists(c.before, <<a, ".svg">>)) =>
                c.requested

\* C5's case: a cached SVG, a converter that was tried and failed, no path
\* and no download.
C5_Witness ==
    /\ Resolving
    /\ exists(call[1].before, <<AbbrevOf(call[1].team_obj), ".svg">>)
    /\ ~exists(call[1].before, <<AbbrevOf(call[1].team_obj), ".png">>)
    /\ call[1].tried # <<>>
    /\ call[1].ret = NoPath
    /\ ~call[1].requested

\* A returned path names a raster file of the team's abbreviation that
\* exists when the call returns.
ReturnedPathIsRaster ==
    Resolving =>
        LET c == call[1]
        IN  c.ret # NoPath =>
                /\ c.ret[1] = AbbrevOf(c.team_obj)
                /\ lower(c.ret[2]) \in RasterExts
                /\ exists(fs, c.ret)

\* The call that just ran downloaded an asset that is no raster and that it
\* did not convert.
DownloadedUnusable ==
    /\ Resolving
    /\ call[1].requested
    /\ call[1].env.download = "ok"
    /\ lower(ExtOf(LogoUrlOf(call[1].team_obj))) \notin RasterExts
    /\ call[1].ret # <<AbbrevOf(call[1].team_obj), ".png">>

C9_AtMostOneRaster ==
    \A a \in Abbrevs :
        Cardinality({e \in {".png", ".jpg"} : exists(fs, <<a, e>>)}) <= 1

\* C10: a run that reaches the loop handles every SVG file of the directory
\* exactly once; a file whose PNG exists is skipped and that PNG is left as
\* it was; every other file goes to the one selected converter and is
\* counted as converted or as failed; in the end converted + skipped +
\* failed is the number of SVG files found.
C10_EveryVectorFileOnce ==
    (batch # <<>> /\ batch[1].looped) =>
        LET b == batch[1]
            found == SvgFiles(b.before)
            had == {a \in found : exists(b.before, <<a, ".png">>)}
        IN  /\ b.st.handled = b.svg_files
            /\ Len(b.svg_files) = Cardinality(found)
            /\ {b.svg_files[i] : i \in DOMAIN b.svg_files} = found
            /\ b.converter \in {"cairosvg", "svglib", "selenium"}
            /\ \A a \in had : fs[<<a, ".png">>] = b.before[<<a, ".png">>]
            /\ \A a \in found \ had : fs[<<a, ".png">>] \in {Absent, b.converter}
            /\ \A p \in Files : p[2] # ".png" => fs[p] = b.before[p]
            /\ b.st.skipped = Cardinality(had)
            /\ b.st.converted + b.st.failed = Cardinality(found \ had)
            /\ Cardinality({a \in found \ had : exists(fs, <<a, ".png">>)}) <= b.st.converted
            /\ b.st.converted + b.st.skipped + b.st.failed = Len(b.svg_files)

\* C10's case: a run over two SVG files, one skipped and one handed to the
\* converter.
C10_Witness ==
    /\ batch # <<>>
    /\ batch[1].looped
    /\ Len(batch[1].svg_files) = 2
    /\ batch[1].st.skipped = 1
    /\ batch[1].st.converted + batch[1].st.failed = 1

-----------------------------------------------------------------------------
(* Properties of fetch_games (SpecFetch) *)

RECURSIVE GamesOfDate(_, _)
\* The games a gameWeek lists under the days of one date, in order.
GamesOfDate(gameWeek, date) ==
    IF gameWeek = <<>> THEN <<>>
    ELSE (IF Head(gameWeek).date = date /\ Head(gameWeek).hasGames
          THEN Head(gameWeek).games ELSE <<>>)
         \o GamesOfDate(Tail(gameWeek), date)

\* The games the response of the fetch that just ran lists under the
\* requested date.
Listed == GamesOfDate(fetch[1].data.gameWeek, fetch[1].date_str)

\* The fetch that just ran returned.
Fetched == fetch # <<>> /\ ~fetch[1].raised

\* The text a record stands for in its summary line.
LineOf(rec) ==
    Str(rec.away_abbrev) \o " vs " \o Str(rec.home_abbrev) \o " - "
        \o (IF rec.is_scheduled THEN rec.start_time
            ELSE ToString(rec.away_score[1]) \o ":" \o ToString(rec.home_score[1]))

\* C2: a game with both scores yields a record with is_scheduled = false
\* that carries both scores (and the line "A vs H - a:h"); a game with
\* neither yields is_scheduled = true and a start_time that is not None, and
\* that is "TBD" when the timestamp is missing, empty or unparsable; only a
\* failure of the request itself makes the fetch fail.
C2_ScoresDecideScheduled ==
    fetch # <<>> =>
        /\ fetch[1].raised => ~fetch[1].data.ok
        /\ Fetched =>
            /\ Len(fetch[1].games_data) = Len(Listed)
            /\ Len(fetch[1].lines) = Len(Listed)
            /\ \A i \in 1..Len(Listed) :
                LET g == Listed[i]
                    rec == fetch[1].games_data[i]
                IN  /\ (g.awayTeam.score # NoScore /\ g.homeTeam.score # NoScore) =>
                        /\ rec.is_scheduled = FALSE
                        /\ rec.away_score = g.awayTeam.score
                        /\ rec.home_score = g.homeTeam.score
                        /\ fetch[1].lines[i] =
                              Str(g.awayTeam.abbrev) \o " vs " \o Str(g.homeTeam.abbrev)
                                  \o " - " \o ToString(g.awayTeam.score[1]) \o ":"
                                  \o ToString(g.homeTeam.score[1])
                    /\ (g.awayTeam.score = NoScore /\ g.homeTeam.score = NoScore) =>
                        /\ rec.is_scheduled = TRUE
                        /\ rec.start_time # None
                        /\ g.startTimeUTC \in {None, "", "7pm"} => rec.start_time = "TBD"
                        /\ fetch[1].lines[i] = LineOf(rec)

\* C2's case: a game with both scores, one of them 0, fetched as a final.
C2_Witness ==
    /\ Fetched
    /\ Len(Listed) = 1
    /\ Listed[1].awayTeam.score = <<0>>
    /\ Listed[1].homeTeam.score = <<3>>
    /\ fetch[1].games_data[1].is_scheduled = FALSE
    /\ fetch[1].lines = <<"AAA vs BBB - 0:3">>

\* C3: lines and records come from the games listed under the requested
\* date, one each and in order; the logos resolved are those of these games'
\* teams, and no file of another abbreviation is touched.
C3_OnlyRequestedDate ==
    Fetched =>
        LET r == fetch[1]
        IN  /\ Len(r.lines) = Len(Listed)
            /\ Len(r.games_data) = Len(Listed)
            /\ Len(r.calls) = 2 * Len(Listed)
            /\ \A i \in 1..Len(Listed) :
                /\ r.games_data[i].away_abbrev = Listed[i].awayTeam.abbrev
                /\ r.games_data[i].home_abbrev = Listed[i].homeTeam.abbrev
                /\ r.lines[i] = LineOf(r.games_data[i])
                /\ r.calls[2 * i - 1].team_obj = Listed[i].awayTeam
                /\ r.calls[2 * i].team_obj = Listed[i].homeTeam
            /\ \A p \in Files :
                (\A i \in 1..Len(Listed) :
                    p[1] \notin {Listed[i].awayTeam.abbrev, Listed[i].homeTeam.abbrev})
                => fs[p] = r.before[p]

\* C3's case: the response lists a game under the requested date and a game
\* under another date.
C3_Witness ==
    /\ Fetched
    /\ Len(Listed) >= 1
    /\ Len(fetch[1].lines) >= 1
    /\ \E i \in DOMAIN fetch[1].data.gameWeek :
          /\ fetch[1].data.gameWeek[i].date # fetch[1].date_str
          /\ fetch[1].data.gameWeek[i].games # <<>>

\* C4: a failed logo download and a failed write end the resolution with no
\* path and no exception, and the fetch returns a line and a record for
\* every listed game, the record's logo being what the resolution returned.
C4_LogoFailuresAreCaught ==
    (fetch # <<>> /\ fetch[1].data.ok) =>
        LET r == fetch[1]
        IN  /\ ~r.raised
            /\ \A k \in DOMAIN r.calls :
                /\ ~r.calls[k].raised
                /\ (r.calls[k].requested /\ r.env.download = "fail") =>
                        r.calls[k].ret = NoPath
                /\ (r.calls[k].requested /\ r.env.download = "ok" /\ r.env.write = "fail") =>
                        \/ r.calls[k].ret = NoPath
                        \/ /\ r.calls[k].ret = <<r.calls[k].team_obj.abbrev, ".png">>
                           /\ cairosvg
                           /\ r.env.cairo = "ok"
            /\ Len(r.lines) = Len(Listed)
            /\ Len(r.games_data) = Len(Listed)
            /\ Len(r.calls) = 2 * Len(Listed)
            /\ \A i \in 1..Len(Listed) :
                /\ r.games_data[i].away_logo = r.calls[2 * i - 1].ret
                /\ r.games_data[i].home_logo = r.calls[2 * i].ret

\* C4's case: the logo host is down during the fetch of a game whose logos
\* are not cached; the record is there, without logos.
C4_Witness ==
    /\ Fetched
    /\ fetch[1].env.download = "fail"
    /\ Len(fetch[1].lines) >= 1
    /\ fetch[1].calls[1].requested
    /\ fetch[1].games_data[1].away_logo = NoPath
    /\ fetch[1].games_data[1].home_logo = NoPath

====
